---------------------------- MODULE Spec2Model ----------------------------
(***************************************************************************)
(* Ruuvi Gateway poller: the fetch / decode / diff pipeline of             *)
(* custom_components/ruuvigateway_noauth (api.py, coordinator.py).         *)
(*                                                                         *)
(* Values.  Python strings that the code inspects character by character   *)
(* (hex payloads, numeric strings, bearer tokens) are sequences of         *)
(* one-character strings; dictionary keys and beacon identifiers, which    *)
(* the code only compares and hashes, are TLA+ strings.  bytes are         *)
(* sequences of 0..255.  Optional[x] is <<>> (None) or <<x>>.  A call      *)
(* that may raise yields [ok |-> TRUE, val |-> v] or                       *)
(* [ok |-> FALSE, exc |-> "<exception class>"].                            *)
(***************************************************************************)
EXTENDS Integers, Sequences, FiniteSets, TLC

(***************************************************************************)
(* Bounds of the model.                                                    *)
(***************************************************************************)
NumMacs == 2

None == <<>>
Some(x) == <<x>>
Ok(v) == [ok |-> TRUE, val |-> v]
Raise(e) == [ok |-> FALSE, exc |-> e]

(***************************************************************************)
(* JSON values as json.loads builds them: None, int, str, dict.  A value   *)
(* is the tuple <<type, int value, characters, items>>; the items of a     *)
(* dict are its <<key, value>> pairs in document order, as items() yields  *)
(* them.                                                                   *)
(***************************************************************************)
JNull == <<"null", 0, <<>>, <<>>>>
JInt(n) == <<"int", n, <<>>, <<>>>>
JStr(s) == <<"str", 0, s, <<>>>>
JObj(items) == <<"obj", 0, <<>>, items>>
JEmptyObj == JObj(<<>>)

JType(x) == x[1]
JIntValue(x) == x[2]
JChars(x) == x[3]
JItems(x) == x[4]
IsDict(x) == JType(x) = "obj"
HasKey(obj, key) == \E n \in 1..Len(JItems(obj)) : JItems(obj)[n][1] = key
Lookup(obj, key) ==
    JItems(obj)[CHOOSE n \in 1..Len(JItems(obj)) : JItems(obj)[n][1] = key][2]

Range(s) == {s[i] : i \in 1..Len(s)}

\* obj[key] for a str key: KeyError on a dict without the key, TypeError on
\* None, an int or a str.
GetItem(obj, key) ==
    IF ~IsDict(obj) THEN Raise("TypeError")
    ELSE IF HasKey(obj, key) THEN Ok(Lookup(obj, key))
    ELSE Raise("KeyError")

\* dict.get(key, default)
DictGet(obj, key, default) ==
    IF HasKey(obj, key) THEN Lookup(obj, key) ELSE default

Digits == <<"0", "1", "2", "3", "4", "5", "6", "7", "8", "9">>
\* the characters chr(11) and chr(28) to chr(31), written as they are
VerticalTab == ""
Separators == {"", "", "", ""}

\* the whitespace among chr(128) to chr(255): next line and no-break space
NextLine == ""
NoBreakSpace == " "

\* the whitespace bytes.fromhex skips: the six ASCII ones
IsAsciiSpace(c) == c \in {" ", "\t", "\n", "\r", "\f", VerticalTab}

\* the whitespace int(str) skips around the number: the ASCII ones and the
\* whitespace beyond chr(127), but not the four separators
IsIntSpace(c) == IsAsciiSpace(c) \/ c \in {NextLine, NoBreakSpace}

\* the whitespace str.strip() removes: str.isspace.  Characters are those
\* up to chr(255).
IsSpace(c) == IsIntSpace(c) \/ c \in Separators
IsDigit(c) == c \in Range(Digits)
DigitVal(c) == (CHOOSE i \in 1..10 : Digits[i] = c) - 1

RECURSIVE LStrip(_)
LStrip(s) ==
    IF s # <<>> /\ IsSpace(Head(s)) THEN LStrip(Tail(s)) ELSE s

RECURSIVE RStrip(_)
RStrip(s) ==
    IF s # <<>> /\ IsSpace(s[Len(s)]) THEN RStrip(SubSeq(s, 1, Len(s) - 1)) ELSE s

\* str.strip()
Strip(s) == RStrip(LStrip(s))

RECURSIVE LStripAscii(_)
LStripAscii(s) ==
    IF s # <<>> /\ IsAsciiSpace(Head(s)) THEN LStripAscii(Tail(s)) ELSE s

RECURSIVE LStripInt(_)
LStripInt(s) ==
    IF s # <<>> /\ IsIntSpace(Head(s)) THEN LStripInt(Tail(s)) ELSE s

RECURSIVE RStripInt(_)
RStripInt(s) ==
    IF s # <<>> /\ IsIntSpace(s[Len(s)])
    THEN RStripInt(SubSeq(s, 1, Len(s) - 1))
    ELSE s

RECURSIVE DecimalValue(_)
DecimalValue(s) ==
    IF s = <<>> THEN 0
    ELSE 10 * DecimalValue(SubSeq(s, 1, Len(s) - 1)) + DigitVal(s[Len(s)])

\* int(str): surrounding whitespace and one sign are accepted, then decimal
\* digits, single underscores between digits allowed.
IntOfStr(s) ==
    LET body == RStripInt(LStripInt(s))
        signed == body # <<>> /\ Head(body) \in {"+", "-"}
        literal == IF signed THEN Tail(body) ELSE body
        wellFormed ==
            /\ literal # <<>>
            /\ \A i \in 1..Len(literal) :
                  \/ IsDigit(literal[i])
                  \/ /\ literal[i] = "_"
                     /\ 1 < i /\ i < Len(literal)
                     /\ IsDigit(literal[i - 1]) /\ IsDigit(literal[i + 1])
        digits == SelectSeq(literal, IsDigit)
    IN  IF ~wellFormed THEN Raise("ValueError")
        ELSE Ok(IF signed /\ Head(body) = "-"
                THEN 0 - DecimalValue(digits)
                ELSE DecimalValue(digits))

\* int(x) for a JSON value x
PyInt(x) ==
    CASE JType(x) = "int" -> Ok(JIntValue(x))
      [] JType(x) = "str" -> IntOfStr(JChars(x))
      [] OTHER -> Raise("TypeError")

HexDigits ==
    <<"0", "1", "2", "3", "4", "5", "6", "7", "8", "9",
      "a", "b", "c", "d", "e", "f">>
UpperHexDigits == <<"A", "B", "C", "D", "E", "F">>
IsHexDigit(c) == c \in Range(HexDigits) \cup Range(UpperHexDigits)
HexVal(c) ==
    IF c \in Range(HexDigits)
    THEN (CHOOSE i \in 1..16 : HexDigits[i] = c) - 1
    ELSE (CHOOSE i \in 1..6 : UpperHexDigits[i] = c) + 9

\* bytes.fromhex on a str: ASCII whitespace is skipped before each byte,
\* every byte is two adjacent hex digits of either case.
RECURSIVE FromHexChars(_)
FromHexChars(s) ==
    LET r == LStripAscii(s)
    IN  IF r = <<>> THEN Ok(<<>>)
        ELSE IF Len(r) < 2 \/ ~IsHexDigit(r[1]) \/ ~IsHexDigit(r[2])
        THEN Raise("ValueError")
        ELSE LET rest == FromHexChars(SubSeq(r, 3, Len(r)))
             IN  IF rest.ok
                 THEN Ok(<<16 * HexVal(r[1]) + HexVal(r[2])>> \o rest.val)
                 ELSE rest

\* bytes.fromhex(x) for a JSON value x
BytesFromHex(x) ==
    IF JType(x) = "str" THEN FromHexChars(JChars(x)) ELSE Raise("TypeError")

\* the test "is not None" in place of the truth value
IsNotNone(optInt) == optInt # None

\* truth value of an Optional[int]: None and 0 are false
Truthy(optInt) == optInt # None /\ optInt[1] # 0

(***************************************************************************)
(* api.py: TagData and HistoryResponse                                     *)
(***************************************************************************)
TagData(mac, rssi, timestamp, data, age_seconds) ==
    [mac |-> mac, rssi |-> rssi, timestamp |-> timestamp, data |-> data,
     age_seconds |-> age_seconds]

\* TagData.from_gateway_history_json_tag; response_timestamp is Optional[int]
from_gateway_history_json_tag(mac, payload, response_timestamp) ==
    LET ts_item == GetItem(payload, "timestamp")
        tag_timestamp == PyInt(ts_item.val)
        age_seconds == IF Truthy(response_timestamp)
                       THEN Some(response_timestamp[1] - tag_timestamp.val)
                       ELSE None
        rssi_item == GetItem(payload, "rssi")
        rssi == PyInt(rssi_item.val)
        data_item == GetItem(payload, "data")
        data == BytesFromHex(data_item.val)
    IN  IF ~ts_item.ok THEN ts_item
        ELSE IF ~tag_timestamp.ok THEN tag_timestamp
        ELSE IF ~rssi_item.ok THEN rssi_item
        ELSE IF ~rssi.ok THEN rssi
        ELSE IF ~data_item.ok THEN data_item
        ELSE IF ~data.ok THEN data
        ELSE Ok(TagData(mac, rssi.val, tag_timestamp.val, data.val, age_seconds))

\* the list comprehension of from_gateway_history_json over tags.items():
\* the first tag that raises ends it
RECURSIVE TagsFromItems(_, _, _)
TagsFromItems(tagsObj, i, response_timestamp) ==
    IF i > Len(JItems(tagsObj)) THEN Ok(<<>>)
    ELSE LET mac == JItems(tagsObj)[i][1]
             tag == from_gateway_history_json_tag(mac, JItems(tagsObj)[i][2],
                                                  response_timestamp)
         IN  IF ~tag.ok THEN tag
             ELSE LET rest == TagsFromItems(tagsObj, i + 1, response_timestamp)
                  IN  IF rest.ok THEN Ok(<<tag.val>> \o rest.val) ELSE rest

HistoryResponse(timestamp, gw_mac, tags, coordinates) ==
    [timestamp |-> timestamp, gw_mac |-> gw_mac, tags |-> tags,
     coordinates |-> coordinates]

LowerLetters ==
    <<"a", "b", "c", "d", "e", "f", "g", "h", "i", "j", "k", "l", "m",
      "n", "o", "p", "q", "r", "s", "t", "u", "v", "w", "x", "y", "z">>
UpperLetters ==
    <<"A", "B", "C", "D", "E", "F", "G", "H", "I", "J", "K", "L", "M",
      "N", "O", "P", "Q", "R", "S", "T", "U", "V", "W", "X", "Y", "Z">>

\* the small letters among chr(128) to chr(255) whose capital is one
\* character of that range, and their capitals
LowerLatin1 ==
    <<"à", "á", "â", "ã", "ä", "å", "æ", "ç", "è", "é", "ê", "ë", "ì",
      "í", "î", "ï", "ð", "ñ", "ò", "ó", "ô", "õ", "ö", "ø", "ù", "ú",
      "û", "ü", "ý", "þ">>
UpperLatin1 ==
    <<"À", "Á", "Â", "Ã", "Ä", "Å", "Æ", "Ç", "È", "É", "Ê", "Ë", "Ì",
      "Í", "Î", "Ï", "Ð", "Ñ", "Ò", "Ó", "Ô", "Õ", "Ö", "Ø", "Ù", "Ú",
      "Û", "Ü", "Ý", "Þ">>

\* str.upper() on one character, as the characters it yields.  Sharp s
\* yields two; the capitals of the micro sign and of y with diaeresis lie
\* beyond chr(255) and are written by their code points.
Upper(c) ==
    IF c \in Range(LowerLetters)
    THEN <<UpperLetters[CHOOSE i \in 1..26 : LowerLetters[i] = c]>>
    ELSE IF c \in Range(LowerLatin1)
    THEN <<UpperLatin1[CHOOSE i \in 1..Len(LowerLatin1) : LowerLatin1[i] = c]>>
    ELSE IF c = "ß" THEN <<"S", "S">>
    ELSE IF c = "µ" THEN <<"U+039C">>
    ELSE IF c = "ÿ" THEN <<"U+0178">>
    ELSE <<c>>

\* str.upper()
RECURSIVE UpperStr(_)
UpperStr(s) == IF s = <<>> THEN <<>> ELSE Upper(Head(s)) \o UpperStr(Tail(s))

\* lines 78-81: HistoryResponse.gw_mac_suffix, self.gw_mac[-5:].upper();
\* a gw_mac that is null or a number has no slices
gw_mac_suffix(gw_mac) ==
    IF JType(gw_mac) # "str" THEN Raise("TypeError")
    ELSE LET chars == JChars(gw_mac)
             from == IF Len(chars) > 5 THEN Len(chars) - 4 ELSE 1
         IN  Ok(UpperStr(SubSeq(chars, from, Len(chars))))

\* HistoryResponse.from_gateway_history_json
from_gateway_history_json(data) ==
    LET payload_item == GetItem(data, "data")
        payload == payload_item.val
        ts_item == GetItem(payload, "timestamp")
        response_timestamp == PyInt(ts_item.val)
        tagsObj == DictGet(payload, "tags", JEmptyObj)
        tags == TagsFromItems(tagsObj, 1, Some(response_timestamp.val))
        gw_mac == GetItem(payload, "gw_mac")
    IN  IF ~payload_item.ok THEN payload_item
        ELSE IF ~ts_item.ok THEN ts_item
        ELSE IF ~response_timestamp.ok THEN response_timestamp
        ELSE IF ~IsDict(tagsObj) THEN Raise("AttributeError")
        ELSE IF ~tags.ok THEN tags
        ELSE IF ~gw_mac.ok THEN gw_mac
        ELSE Ok(HistoryResponse(response_timestamp.val, gw_mac.val, tags.val,
                                DictGet(payload, "coordinates", JStr(<<>>))))


(***************************************************************************)
(* api.py: async_get_gateway_history_data, piece by piece                  *)
(***************************************************************************)
BearerPrefix == <<"B", "e", "a", "r", "e", "r", " ">>

\* lines 114-116: the headers of the request, None or the Authorization header
RequestHeaders(bearer_token) ==
    IF bearer_token # None /\ bearer_token[1] # <<>>
    THEN Some([Authorization |-> BearerPrefix \o bearer_token[1]])
    ELSE None

\* the two status checks in the other order
CheckStatusNot200First(status) ==
    IF status # 200 THEN Raise("CannotConnect")
    ELSE IF status = 401 THEN Raise("InvalidAuth")
    ELSE Ok(status)

\* lines 122-127: the status checks inside the async with block
CheckStatus(status) ==
    IF status = 401 THEN Raise("InvalidAuth")
    ELSE IF status # 200 THEN Raise("CannotConnect")
    ELSE Ok(status)

\* the body of a response: what kind of text it is and, for a JSON document,
\* the value json.loads builds from it
BodyKind(body) == body[1]
BodyValue(body) == body[2]

\* line 128: response.json(content_type=None).  The content type is not
\* checked; a body that is empty after stripping yields None without parsing
\* (aiohttp), any other body goes through json.loads, whose JSONDecodeError
\* is a ValueError.
ResponseJson(body) ==
    CASE BodyKind(body) = "invalid" -> Raise("ValueError")
      [] BodyKind(body) = "empty" -> Ok(JNull)
      [] OTHER -> Ok(BodyValue(body))

\* the except clauses without the one of line 135
ExceptClausesWithoutValueError(exc) ==
    CASE exc = "InvalidAuth" -> "InvalidAuth"
      [] exc = "TimeoutError" -> "CannotConnect"
      [] exc = "ClientError" -> "CannotConnect"
      [] OTHER -> exc

\* lines 129-136: the except clauses around the request, from the exception
\* raised inside the try statement to the one that leaves the function
ExceptClauses(exc) ==
    CASE exc = "InvalidAuth" -> "InvalidAuth"
      [] exc = "TimeoutError" -> "CannotConnect"
      [] exc = "ClientError" -> "CannotConnect"
      [] exc \in {"KeyError", "ValueError", "TypeError"} -> "CannotConnect"
      [] OTHER -> exc

(***************************************************************************)
(* coordinator.py                                                          *)
(***************************************************************************)
\* line 37: config_entry.data.get(CONF_TOKEN) or None
TokenOrNone(configured) ==
    IF configured # None /\ configured[1] # <<>> THEN configured ELSE None

\* the loop body comparing the whole record instead of its payload
LoopBodyComparesRecord(st, tag) ==
    IF tag.mac \notin DOMAIN st.cache \/ st.cache[tag.mac] # tag
    THEN [cache |-> [m \in DOMAIN st.cache \cup {tag.mac} |->
                        IF m = tag.mac THEN tag ELSE st.cache[m]],
          changed |-> Append(st.changed, tag)]
    ELSE st

\* the loop body rebuilding the cache from the changed tag alone
LoopBodyDropsOthers(st, tag) ==
    IF tag.mac \notin DOMAIN st.cache \/ st.cache[tag.mac].data # tag.data
    THEN [cache |-> [m \in {tag.mac} |-> tag],
          changed |-> Append(st.changed, tag)]
    ELSE st

\* the loop body putting a changed record at the front of the list
LoopBodyPrepends(st, tag) ==
    IF tag.mac \notin DOMAIN st.cache \/ st.cache[tag.mac].data # tag.data
    THEN [cache |-> [m \in DOMAIN st.cache \cup {tag.mac} |->
                        IF m = tag.mac THEN tag ELSE st.cache[m]],
          changed |-> <<tag>> \o st.changed]
    ELSE st

\* the loop body storing a record only for an identifier not yet cached
LoopBodyKeepsFirst(st, tag) ==
    IF tag.mac \notin DOMAIN st.cache \/ st.cache[tag.mac].data # tag.data
    THEN [cache |-> [m \in DOMAIN st.cache \cup {tag.mac} |->
                        IF m \in DOMAIN st.cache THEN st.cache[m] ELSE tag],
          changed |-> Append(st.changed, tag)]
    ELSE st

\* the loop body without the assignment of line 53
LoopBodyWithoutStore(st, tag) ==
    IF tag.mac \notin DOMAIN st.cache \/ st.cache[tag.mac].data # tag.data
    THEN [cache |-> st.cache, changed |-> Append(st.changed, tag)]
    ELSE st

\* lines 48-53: one pass of the loop body over tag; st is the cache and the
\* changed list so far
LoopBody(st, tag) ==
    IF tag.mac \notin DOMAIN st.cache \/ st.cache[tag.mac].data # tag.data
    THEN [cache |-> [m \in DOMAIN st.cache \cup {tag.mac} |->
                        IF m = tag.mac THEN tag ELSE st.cache[m]],
          changed |-> Append(st.changed, tag)]
    ELSE st

\* lines 47-53: the whole loop from position i of tags
RECURSIVE RunLoop(_, _, _)
RunLoop(st, tags, i) ==
    IF i > Len(tags) THEN st ELSE RunLoop(LoopBody(st, tags[i]), tags, i + 1)

(***************************************************************************)
(* What the gateway and the configuration may supply                       *)
(***************************************************************************)
MacNames == <<"aa:bb:cc:dd:ee:01", "AA:BB:CC:DD:EE:01", "11:22:33:44:55:66">>
Macs == {MacNames[i] : i \in 1..NumMacs}
ResponseTimestamps == {100}
GatewayMac == <<"C", "0", ":", "f", "f", "e", "e">>

TagJson(rssi, timestamp, data) ==
    JObj(<< <<"rssi", rssi>>, <<"timestamp", timestamp>>, <<"data", data>> >>)

WithoutKey(obj, key) ==
    JObj(SelectSeq(JItems(obj), LAMBDA item : item[1] # key))

SampleTagJson == TagJson(JInt(-70), JInt(95), JStr(<<"a", "a">>))

\* a sighting, the same payload heard again later and weaker (and spelled in
\* upper-case hex), and another payload
GoodTagJsons ==
    {SampleTagJson,
     TagJson(JInt(-60), JInt(99), JStr(<<"A", "A">>)),
     TagJson(JInt(-70), JInt(95), JStr(<<"0", "1">>))}

\* tags that do not decode, and a tag whose numbers arrive as strings
OddTagJsons ==
    {WithoutKey(SampleTagJson, k) : k \in {"rssi", "timestamp", "data"}}
    \cup {TagJson(JInt(-70), JInt(95), JStr(<<"z", "z">>)),
          TagJson(JInt(-70), JInt(95), JStr(<<"0", "1", "2">>)),
          TagJson(JInt(-70), JInt(95), JInt(1)),
          TagJson(JStr(<<"x">>), JInt(95), JStr(<<"0", "1">>)),
          TagJson(JInt(-70), JNull, JStr(<<"0", "1">>)),
          TagJson(JStr(<<"-", "7", "0">>), JStr(<<" ", "9", "5">>),
                  JStr(<<"0", "1">>)),
          JNull}

Injective(s) == \A i, j \in 1..Len(s) : s[i] = s[j] => i = j
MacSeqs ==
    UNION {{s \in [1..n -> Macs] : Injective(s)} : n \in 0..NumMacs}

\* the tags dict that lists the macs ks in this order, mac ks[n] with tag f[ks[n]]
RECURSIVE TagItems(_, _)
TagItems(ks, f) ==
    IF Len(ks) = 0 THEN <<>>
    ELSE << <<Head(ks), f[Head(ks)]>> >> \o TagItems(Tail(ks), f)

GoodTagsObjs ==
    UNION {{JObj(TagItems(ks, f)) : f \in [Range(ks) -> GoodTagJsons]} :
              ks \in MacSeqs}

\* one tag that does not decode, alone, before or after a tag that does
OddTagsObjs ==
    {JObj(<< <<MacNames[1], IF n = 1 THEN odd ELSE SampleTagJson>>,
             <<MacNames[2], IF n = 2 THEN odd ELSE SampleTagJson>> >>) :
        n \in {1, 2}, odd \in OddTagJsons}
    \cup {JObj(<< <<MacNames[1], odd>> >>) : odd \in OddTagJsons}

HistoryJson(timestamp, tagsObj) ==
    JObj(<< <<"data", JObj(<< <<"timestamp", timestamp>>,
                              <<"gw_mac", JStr(GatewayMac)>>,
                              <<"tags", tagsObj>> >>)>> >>)

WithoutDataKey(json, key) ==
    JObj(<< <<"data", WithoutKey(Lookup(json, "data"), key)>> >>)

SampleTagsObj == JObj(<< <<MacNames[1], SampleTagJson>> >>)
SampleHistoryJson == HistoryJson(JInt(100), SampleTagsObj)

GoodJsons ==
    {HistoryJson(JInt(ts), tagsObj) :
        ts \in ResponseTimestamps, tagsObj \in GoodTagsObjs}

OddJsons ==
    {HistoryJson(JInt(100), tagsObj) : tagsObj \in OddTagsObjs}
    \cup {WithoutDataKey(SampleHistoryJson, k) :
             k \in {"timestamp", "gw_mac", "tags"}}
    \cup {HistoryJson(JStr(<<"n", "o", "w">>), SampleTagsObj),
          HistoryJson(JInt(100), JNull),
          HistoryJson(JInt(0), SampleTagsObj),
          JEmptyObj, JNull, JInt(7), JStr(<<"o", "k">>)}

\* responses that decode: one older than its tag, so that the age is
\* negative, one whose tag carries the empty hex string, and one whose
\* numbers and payload are strings with whitespace around them
EdgeJsons ==
    {HistoryJson(JInt(90), SampleTagsObj),
     HistoryJson(JInt(100),
                 JObj(<< <<MacNames[1],
                           TagJson(JInt(-70), JInt(95), JStr(<<>>))>> >>)),
     HistoryJson(JStr(<<VerticalTab, "1", "0", "0">>),
                 JObj(<< <<MacNames[1],
                           TagJson(JStr(<<"-", "7", "0", NextLine>>),
                                   JStr(<<NoBreakSpace, "9", "5", VerticalTab>>),
                                   JStr(<<VerticalTab, "a", "b">>))>> >>))}

JsonBody(value) == <<"json", value>>
InvalidBody == <<"invalid", JNull>>
EmptyBody == <<"empty", JNull>>

Bodies ==
    {JsonBody(v) : v \in GoodJsons \cup OddJsons \cup EdgeJsons}
    \cup {InvalidBody, EmptyBody}

Statuses == {200, 401, 404, 500}
TransportErrors == {"TimeoutError", "ClientError"}
ConfiguredTokens ==
    {None, Some(<<>>), Some(<<" ", " ">>), Some(<<"k", "9">>)}


(***************************************************************************)
(* State.  Tasks are invocations of _async_update_data; Driver is the one  *)
(* the update coordinator's schedule runs.  The pc of a task is "idle",    *)
(* "get" (suspended in session.get), "json" (suspended in response.json),  *)
(* "exit" (suspended in the exit of the async with block of api.py 117)    *)
(* or "loop" (executing the for loop, which holds the event loop).         *)
(***************************************************************************)
Tasks == {1, 2}
Driver == 1

VARIABLES
    token,              \* self.token
    last_tag_datas,     \* self.last_tag_datas: mac -> TagData
    pc,                 \* task -> position
    request,            \* task -> Optional headers record of the GET in flight or last sent
    http,               \* task -> Optional [status, body]; body is None until it is read
    data,               \* task -> Optional HistoryResponse (local data)
    idx,                \* task -> position of the for loop in data.tags
    changed_tag_datas,  \* task -> local changed_tag_datas
    outcome,            \* task -> how the last finished cycle ended
    cache_at_start,     \* task -> last_tag_datas when the cycle started
    prev_payloads,      \* Optional mac -> payload of the preceding cycle's response, if it succeeded
    repeated,           \* task -> the response carries the payloads of the preceding successful cycle
    serial_cache,       \* the successful responses applied one after another in diff order
    after_failure,      \* task -> the cycle began right after a cycle of the task that failed
    gets,               \* task -> GET requests sent since the cycle began
    latest_payloads,    \* mac -> its payload in the last returned response that held it
    flow,               \* the config flow: its step, the user input and what came of it
    pending             \* task -> Optional exception on its way out of the async with block

vars ==
    <<token, last_tag_datas, pc, request, http, data, idx, changed_tag_datas,
      outcome, cache_at_start, prev_payloads, repeated, serial_cache,
      after_failure, gets, latest_payloads, flow, pending>>

\* How a cycle ended: it returned value, or exc left _async_update_data;
\* at and original say where the exception arose and as what
NoOutcome ==
    [kind |-> "none", exc |-> "", at |-> "", original |-> "", value |-> <<>>]
Returned(list) ==
    [kind |-> "returned", exc |-> "", at |-> "", original |-> "", value |-> list]
Raised(at, original, exc) ==
    [kind |-> "raised", exc |-> exc, at |-> at, original |-> original,
     value |-> <<>>]

EmptyCache == <<>>

\* config_flow.py 26-29: the config flow before any of its steps ran.
\* config_schema is None for CONFIG_SCHEMA or the default host of the schema.
\* pending is the exception on its way out of the async with block of the
\* fetch, gw_mac the gateway mac of the decoded response, result the entry
\* _async_validate returned and errors what its errors dict holds under
\* "base"; fetched, exc and prev_errors record whether the
\* fetch returned, which exception left the try body, and the errors the
\* form was last shown with.
NoFlow ==
    [step |-> "init", config_schema |-> None,
     token_input |-> None, token |-> None, request |-> None,
     status |-> 0, body |-> None, pending |-> None, gw_mac |-> None,
     result |-> None, errors |-> None,
     fetched |-> FALSE, exc |-> "", prev_errors |-> None]

\* f with every key of g set to g's value
Overlay(f, g) ==
    [m \in DOMAIN f \cup DOMAIN g |-> IF m \in DOMAIN g THEN g[m] ELSE f[m]]
Payloads(tags) == [m \in {tags[i].mac : i \in 1..Len(tags)} |->
                      tags[CHOOSE i \in 1..Len(tags) : tags[i].mac = m].data]

\* lines 22-38: __init__, for an entry whose token is one of configured
InitWith(configured) ==
    /\ token \in {TokenOrNone(c) : c \in configured}
    /\ last_tag_datas = EmptyCache
    /\ pc = [t \in Tasks |-> "idle"]
    /\ request = [t \in Tasks |-> None]
    /\ http = [t \in Tasks |-> None]
    /\ data = [t \in Tasks |-> None]
    /\ idx = [t \in Tasks |-> 0]
    /\ changed_tag_datas = [t \in Tasks |-> <<>>]
    /\ outcome = [t \in Tasks |-> NoOutcome]
    /\ cache_at_start = [t \in Tasks |-> EmptyCache]
    /\ prev_payloads = None
    /\ repeated = [t \in Tasks |-> FALSE]
    /\ serial_cache = EmptyCache
    /\ after_failure = [t \in Tasks |-> FALSE]
    /\ gets = [t \in Tasks |-> 0]
    /\ latest_payloads = <<>>
    /\ flow = NoFlow
    /\ pending = [t \in Tasks |-> None]

\* as if the for loop awaited in its body
RunnableDuringLoops(t) == TRUE

\* A suspended task resumes only when no other task is executing: the for
\* loop of lines 47-53 has no await, so it runs to its end once entered.
Runnable(t) == \A u \in Tasks \ {t} : pc[u] # "loop"

\* a failed cycle that also resets the cache
FailResetsCache(t, at, original, exc) ==
    /\ pc' = [pc EXCEPT ![t] = "idle"]
    /\ outcome' = [outcome EXCEPT ![t] = Raised(at, original, exc)]
    /\ data' = [data EXCEPT ![t] = None]
    /\ idx' = [idx EXCEPT ![t] = 0]
    /\ changed_tag_datas' = [changed_tag_datas EXCEPT ![t] = <<>>]
    /\ prev_payloads' = None
    /\ repeated' = [repeated EXCEPT ![t] = FALSE]
    /\ last_tag_datas' = EmptyCache
    /\ pending' = [pending EXCEPT ![t] = None]
    /\ UNCHANGED <<token, request, cache_at_start, serial_cache,
                   after_failure, gets, latest_payloads, flow>>

\* a failure answered by sending the GET again within the cycle
FailRetries(t, at, original, exc) ==
    /\ pc' = [pc EXCEPT ![t] = "get"]
    /\ gets' = [gets EXCEPT ![t] = @ + 1]
    /\ pending' = [pending EXCEPT ![t] = None]
    /\ UNCHANGED <<token, last_tag_datas, request, data, idx, changed_tag_datas,
                   outcome, cache_at_start, prev_payloads, repeated,
                   serial_cache, after_failure, latest_payloads, flow>>

\* a failed cycle that leaves the task unable to start another one
FailIsFatal(t, at, original, exc) ==
    /\ pc' = [pc EXCEPT ![t] = "failed"]
    /\ outcome' = [outcome EXCEPT ![t] = Raised(at, original, exc)]
    /\ data' = [data EXCEPT ![t] = None]
    /\ idx' = [idx EXCEPT ![t] = 0]
    /\ changed_tag_datas' = [changed_tag_datas EXCEPT ![t] = <<>>]
    /\ prev_payloads' = None
    /\ repeated' = [repeated EXCEPT ![t] = FALSE]
    /\ pending' = [pending EXCEPT ![t] = None]
    /\ UNCHANGED <<token, last_tag_datas, request, cache_at_start, serial_cache,
                   latest_payloads, after_failure, gets, flow>>

\* an exception leaves _async_update_data: nothing after line 42 runs
Fail(t, at, original, exc) ==
    /\ pc' = [pc EXCEPT ![t] = "idle"]
    /\ outcome' = [outcome EXCEPT ![t] = Raised(at, original, exc)]
    /\ data' = [data EXCEPT ![t] = None]
    /\ idx' = [idx EXCEPT ![t] = 0]
    /\ changed_tag_datas' = [changed_tag_datas EXCEPT ![t] = <<>>]
    /\ prev_payloads' = None
    /\ repeated' = [repeated EXCEPT ![t] = FALSE]
    /\ pending' = [pending EXCEPT ![t] = None]
    /\ UNCHANGED <<token, last_tag_datas, request, cache_at_start, serial_cache,
                   latest_payloads, after_failure, gets, flow>>

\* api.py 117-128: an exception is raised inside the async with block; the
\* block's exit is awaited before an except clause of lines 129-136 sees it
RaiseInWith(t, at, original, exc) ==
    /\ pc' = [pc EXCEPT ![t] = "exit"]
    /\ pending' = [pending EXCEPT ![t] =
                       Some([at |-> at, original |-> original, exc |-> exc])]
    /\ UNCHANGED <<token, last_tag_datas, request, data, idx, changed_tag_datas,
                   outcome, cache_at_start, prev_payloads, repeated,
                   serial_cache, after_failure, gets, latest_payloads, flow>>

\* lines 41-46 and api.py 112-121: a cycle starts and sends its GET
Tick(t) ==
    /\ pc[t] = "idle"
    /\ Runnable(t)
    /\ pc' = [pc EXCEPT ![t] = "get"]
    /\ changed_tag_datas' = [changed_tag_datas EXCEPT ![t] = <<>>]
    /\ request' = [request EXCEPT ![t] = Some([headers |-> RequestHeaders(token)])]
    /\ http' = [http EXCEPT ![t] = None]
    /\ data' = [data EXCEPT ![t] = None]
    /\ idx' = [idx EXCEPT ![t] = 0]
    /\ outcome' = [outcome EXCEPT ![t] = NoOutcome]
    /\ cache_at_start' = [cache_at_start EXCEPT ![t] = last_tag_datas]
    /\ repeated' = [repeated EXCEPT ![t] = FALSE]
    /\ after_failure' = [after_failure EXCEPT ![t] = outcome[t].kind = "raised"]
    /\ gets' = [gets EXCEPT ![t] = 1]
    /\ UNCHANGED <<token, last_tag_datas, prev_payloads, serial_cache,
                   latest_payloads, flow, pending>>

\* api.py 117-127: session.get returns the response once its status line and
\* headers have arrived; the body is not read yet
GetResponds(t, status) ==
    /\ pc[t] = "get"
    /\ Runnable(t)
    /\ http' = [http EXCEPT ![t] = Some([status |-> status, body |-> None])]
    /\ LET checked == CheckStatus(status)
       IN  IF checked.ok
           THEN /\ pc' = [pc EXCEPT ![t] = "json"]
                /\ UNCHANGED <<token, last_tag_datas, request, data, idx,
                               changed_tag_datas, outcome, cache_at_start,
                               prev_payloads, repeated, serial_cache,
                               after_failure, gets, latest_payloads, flow, pending>>
           ELSE RaiseInWith(t, "status", checked.exc,
                            ExceptClauses(checked.exc))

\* api.py 117, 131-134: the request times out or the connection fails
GetRaises(t, exc) ==
    /\ pc[t] = "get"
    /\ Runnable(t)
    /\ Fail(t, "get", exc, ExceptClauses(exc))
    /\ UNCHANGED http

\* api.py 128: the body arrives and is parsed; parsed is what line 128
\* yields
JsonReturns(t, body) ==
    /\ pc[t] = "json"
    /\ Runnable(t)
    /\ http' = [http EXCEPT ![t] = Some([http[t][1] EXCEPT !.body = Some(body)])]
    /\ \E parsed \in {ResponseJson(body)} :
           IF ~parsed.ok
           THEN RaiseInWith(t, "json", parsed.exc, ExceptClauses(parsed.exc))
           ELSE /\ pc' = [pc EXCEPT ![t] = "exit"]
                /\ UNCHANGED <<token, last_tag_datas, request, data, idx,
                               changed_tag_datas, outcome, cache_at_start,
                               prev_payloads, repeated, serial_cache,
                               after_failure, gets, latest_payloads, flow,
                               pending>>

\* api.py 128, 131-134: reading the body times out or the connection fails
JsonRaises(t, exc) ==
    /\ pc[t] = "json"
    /\ Runnable(t)
    /\ RaiseInWith(t, "json", exc, ExceptClauses(exc))
    /\ UNCHANGED http

\* api.py 117, 129-138 and coordinator.py 42-47: the async with block has
\* been left.  An exception raised in it leaves the function as the except
\* clauses made it; otherwise line 138 decodes the parsed body, decoded
\* being what it yields, computed once, and the for loop is entered.
ExitReturns(t) ==
    /\ pc[t] = "exit"
    /\ Runnable(t)
    /\ UNCHANGED http
    /\ IF pending[t] # None
       THEN Fail(t, pending[t][1].at, pending[t][1].original, pending[t][1].exc)
       ELSE \E decoded \in
                {from_gateway_history_json(ResponseJson(http[t][1].body[1]).val)} :
           IF ~decoded.ok
           THEN Fail(t, "decode", decoded.exc, decoded.exc)
           ELSE /\ pc' = [pc EXCEPT ![t] = "loop"]
                /\ data' = [data EXCEPT ![t] = Some(decoded.val)]
                /\ idx' = [idx EXCEPT ![t] = 1]
                /\ repeated' = [repeated EXCEPT ![t] =
                                   prev_payloads = Some(Payloads(decoded.val.tags))]
                /\ prev_payloads' = None
                /\ serial_cache' =
                       RunLoop([cache |-> serial_cache, changed |-> <<>>],
                               decoded.val.tags, 1).cache
                /\ UNCHANGED <<token, last_tag_datas, request,
                               changed_tag_datas, outcome, cache_at_start,
                               after_failure, gets, latest_payloads, flow,
                               pending>>

\* coordinator.py 47-53: one iteration of the for loop
LoopIter(t) ==
    /\ pc[t] = "loop"
    /\ idx[t] <= Len(data[t][1].tags)
    /\ LET st == LoopBody([cache |-> last_tag_datas,
                           changed |-> changed_tag_datas[t]],
                          data[t][1].tags[idx[t]])
       IN  /\ last_tag_datas' = st.cache
           /\ changed_tag_datas' = [changed_tag_datas EXCEPT ![t] = st.changed]
    /\ idx' = [idx EXCEPT ![t] = idx[t] + 1]
    /\ UNCHANGED <<token, pc, request, http, data, outcome, cache_at_start,
                   prev_payloads, repeated, serial_cache,
                   after_failure, gets, latest_payloads, flow, pending>>

\* coordinator.py 54: return changed_tag_datas
Return(t) ==
    /\ pc[t] = "loop"
    /\ idx[t] > Len(data[t][1].tags)
    /\ pc' = [pc EXCEPT ![t] = "idle"]
    /\ outcome' = [outcome EXCEPT ![t] = Returned(changed_tag_datas[t])]
    /\ changed_tag_datas' = [changed_tag_datas EXCEPT ![t] = <<>>]
    /\ idx' = [idx EXCEPT ![t] = 0]
    /\ prev_payloads' = Some(Payloads(data[t][1].tags))
    /\ latest_payloads' = Overlay(latest_payloads, Payloads(data[t][1].tags))
    /\ UNCHANGED <<token, last_tag_datas, request, http, data, cache_at_start,
                   repeated, serial_cache, after_failure, gets, flow, pending>>

Cycle(t, bodies) ==
    \/ Tick(t)
    \/ \E status \in Statuses : GetResponds(t, status)
    \/ \E exc \in TransportErrors : GetRaises(t, exc)
    \/ \E body \in bodies : JsonReturns(t, body)
    \/ \E exc \in TransportErrors : JsonRaises(t, exc)
    \/ ExitReturns(t)
    \/ LoopIter(t)
    \/ Return(t)

\* One cycle at a time, as the update coordinator's schedule runs them, for
\* an entry set up without a token.
Init == InitWith({None})
Next == Cycle(Driver, Bodies)
Spec == Init /\ [][Next]_vars

\* The task running _async_update_data is cancelled: CancelledError is
\* thrown into it where it is suspended, which is in one of the awaits of
\* api.py 117-128.  Thrown at response.json, inside the async with block, it
\* goes through the block's exit as any exception raised there; thrown at
\* the exit it takes the place of an exception on its way out.  It is a
\* BaseException, so no except clause of api.py 129-136 catches it, and
\* lines 47-54 have no await to deliver it at.
CancelPointsWithLoop == {"get", "json", "exit", "loop"}
CancelPoints == {"get", "json", "exit"}
Cancel(t) ==
    /\ pc[t] \in CancelPoints
    /\ Runnable(t)
    /\ IF pc[t] = "json"
       THEN RaiseInWith(t, "json", "CancelledError", "CancelledError")
       ELSE Fail(t, pc[t], "CancelledError", "CancelledError")
    /\ UNCHANGED http

\* One cycle at a time, any of which the host may cancel.
NextCancel == Cycle(Driver, Bodies) \/ Cancel(Driver)
SpecCancel == Init /\ [][NextCancel]_vars

\* The same for an entry with any of the configured tokens.
InitAnyToken == InitWith(ConfiguredTokens)
SpecAnyToken == InitAnyToken /\ [][Next]_vars

\* Invocations of _async_update_data that overlap: nothing in coordinator.py
\* keeps a second one from starting while the first is suspended.
ConcBodies ==
    {JsonBody(HistoryJson(JInt(100), tagsObj)) :
        tagsObj \in UNION {{JObj(TagItems(ks, [k \in Range(ks) |-> tj])) :
                               tj \in {SampleTagJson,
                                       TagJson(JInt(-70), JInt(95), JStr(<<"0", "1">>))}} :
                           ks \in {<<MacNames[1], MacNames[2]>>,
                                   <<MacNames[2]>>}}}
    \cup {InvalidBody}
NextConc == \E t \in Tasks : Cycle(t, ConcBodies)
SpecConc == Init /\ [][NextConc]_vars

\* One cycle at a time.  The for loop of lines 47-53 holds the event loop
\* and is finite, so a cycle that has entered it goes on to its return.
\* Whether an await of api.py 117-128 ever returns or raises is up to the
\* gateway and the network: coordinator.py 42-46 passes no timeout, so the
\* request is sent with timeout=None and nothing bounds the wait.  When the
\* next cycle starts is up to the schedule.  The responses are those of
\* ConcBodies, one that does not decode and the empty one.
LiveBodies ==
    ConcBodies \cup {JsonBody(HistoryJson(JInt(100), JNull)), EmptyBody}
NextLive == Cycle(Driver, LiveBodies)
Running(t) == LoopIter(t) \/ Return(t)
SpecLive == Init /\ [][NextLive]_vars /\ WF_vars(Running(Driver))


(***************************************************************************)
(* config_flow.py: RuuviConfigFlow.  The step of the flow is "init" (no    *)
(* step has run), "dhcp_unique_id" (the await of line 95), "form" (the     *)
(* form is shown), "get", "json" and "exit" (the awaits of the fetch),     *)
(* "unique_id" (the await of line 51), "created" (the entry was returned), *)
(* "aborted" (AbortFlow left async_step_dhcp) or "cancelled"               *)
(* (CancelledError left the step).                                         *)
(***************************************************************************)
Host == "192.168.1.10"
TokenInputs ==
    ConfiguredTokens
    \cup {Some(<<" ", "k", "9", " ">>), Some(<<VerticalTab, "k", "9", "">>),
          Some(<<NoBreakSpace, "k", "9", NextLine>>), Some(<<VerticalTab>>)}

\* the responses of the cycle and two whose gateway mac is not a string
GwMacJson(gw_mac) ==
    JObj(<< <<"data", JObj(<< <<"timestamp", JInt(100)>>,
                              <<"gw_mac", gw_mac>>,
                              <<"tags", SampleTagsObj>> >>)>> >>)
FlowBodies == Bodies \cup {JsonBody(GwMacJson(JNull)), JsonBody(GwMacJson(JInt(5)))}

\* lines 39-45: the token of the input, stripped; None when it is missing
\* or empty after stripping
ValidatedToken(token_input) ==
    IF token_input # None /\ Strip(token_input[1]) # <<>>
    THEN Some(Strip(token_input[1]))
    ELSE None

\* lines 58-60: the data of the entry; token is None when CONF_TOKEN is
\* not among its keys
EntryData(host, tok) ==
    [host |-> host,
     token |-> IF tok # None /\ tok[1] # <<>> THEN tok ELSE None]

\* line 57: the title of the entry
TitlePrefix ==
    <<"R", "u", "u", "v", "i", " ", "G", "a", "t", "e", "w", "a", "y", " ">>
EntryTitle(suffix) == TitlePrefix \o suffix

\* the exceptions `except Exception` does not catch
NotExceptions ==
    {"CancelledError", "KeyboardInterrupt", "SystemExit", "GeneratorExit",
     "BaseException", "BaseExceptionGroup"}

\* the except clauses with InvalidAuth handled by the first one
FlowExceptClausesAuthAsConnect(exc) ==
    CASE exc \in NotExceptions -> None
      [] exc = "CannotConnect" -> Some("cannot_connect")
      [] exc = "InvalidAuth" -> Some("cannot_connect")
      [] OTHER -> Some("unknown")

\* lines 65-71: the except clauses, from the exception to errors["base"];
\* None when no clause catches it
FlowExceptClauses(exc) ==
    CASE exc \in NotExceptions -> None
      [] exc = "CannotConnect" -> Some("cannot_connect")
      [] exc = "InvalidAuth" -> Some("invalid_auth")
      [] OTHER -> Some("unknown")

CoordinatorVars ==
    <<token, last_tag_datas, pc, request, http, data, idx, changed_tag_datas,
      outcome, cache_at_start, prev_payloads, repeated, serial_cache,
      after_failure, gets, latest_payloads, pending>>

\* lines 65-72 and 83-89: exc left the try body of the flow that had come
\* as far as seen.  When a clause catches it, (None, errors) is returned and
\* the form is shown again; otherwise it leaves _async_validate and
\* async_step_user.
FlowFail(seen, exc) ==
    /\ flow' = [seen EXCEPT
                   !.step = IF FlowExceptClauses(exc) = None
                            THEN "cancelled" ELSE "form",
                   !.pending = None,
                   !.result = None,
                   !.errors = FlowExceptClauses(exc),
                   !.exc = exc]
    /\ UNCHANGED CoordinatorVars

\* api.py 117-128: an exception is raised inside the async with block of the
\* fetch; the block's exit is awaited first
FlowRaiseInWith(seen, exc) ==
    /\ flow' = [seen EXCEPT !.step = "exit", !.pending = Some(exc)]
    /\ UNCHANGED CoordinatorVars

\* lines 81-89: async_step_user without input shows the form
FlowStepUser ==
    /\ flow.step = "init"
    /\ flow' = [flow EXCEPT !.step = "form"]
    /\ UNCHANGED CoordinatorVars

\* lines 91-95: a gateway is discovered by DHCP; its mac is formatted and
\* async_set_unique_id awaited
FlowStepDhcp ==
    /\ flow.step = "init"
    /\ flow' = [flow EXCEPT !.step = "dhcp_unique_id"]
    /\ UNCHANGED CoordinatorVars

\* lines 96-98 and 81-89: when an entry of the discovered gateway is
\* configured already, AbortFlow leaves async_step_dhcp; otherwise the
\* schema gets the discovered address as default host and the form is shown
FlowDhcpUniqueIdSet(configured) ==
    /\ flow.step = "dhcp_unique_id"
    /\ flow' = IF configured
               THEN [flow EXCEPT !.step = "aborted", !.exc = "AbortFlow"]
               ELSE [flow EXCEPT !.step = "form", !.config_schema = Some(Host)]
    /\ UNCHANGED CoordinatorVars

\* lines 79-80, 36-50 and api.py 112-121: the user submits the form, the
\* token is stripped and the GET is sent
FlowSubmit(token_input) ==
    /\ flow.step \in {"init", "form"}
    /\ flow' = [NoFlow EXCEPT
                   !.step = "get",
                   !.config_schema = flow.config_schema,
                   !.token_input = token_input,
                   !.token = ValidatedToken(token_input),
                   !.request = Some([headers |->
                                        RequestHeaders(ValidatedToken(token_input))]),
                   !.prev_errors = flow.errors]
    /\ UNCHANGED CoordinatorVars

\* api.py 117-127: the status line arrives
FlowGetResponds(status) ==
    /\ flow.step = "get"
    /\ LET checked == CheckStatus(status)
       IN  IF checked.ok
           THEN /\ flow' = [flow EXCEPT !.step = "json", !.status = status]
                /\ UNCHANGED CoordinatorVars
           ELSE FlowRaiseInWith([flow EXCEPT !.status = status],
                                ExceptClauses(checked.exc))

\* api.py 117, 131-134: the request times out or the connection fails
FlowGetRaises(exc) ==
    /\ flow.step = "get"
    /\ FlowFail(flow, ExceptClauses(exc))

\* api.py 128: the body arrives and is parsed
FlowJsonReturns(body) ==
    /\ flow.step = "json"
    /\ \E parsed \in {ResponseJson(body)} :
           IF ~parsed.ok
           THEN FlowRaiseInWith([flow EXCEPT !.body = Some(body)],
                                ExceptClauses(parsed.exc))
           ELSE /\ flow' = [flow EXCEPT !.step = "exit", !.body = Some(body)]
                /\ UNCHANGED CoordinatorVars

\* api.py 128, 131-134: reading the body times out or the connection fails
FlowJsonRaises(exc) ==
    /\ flow.step = "json"
    /\ FlowRaiseInWith(flow, ExceptClauses(exc))

\* api.py 117, 129-138 and lines 46-53: the async with block has been left.
\* An exception raised in it leaves the fetch; otherwise line 138 decodes
\* the parsed body, the fetch returns, and format_mac is given the gateway
\* mac, of which it takes the length, for the await of async_set_unique_id.
FlowExitReturns ==
    /\ flow.step = "exit"
    /\ IF flow.pending # None
       THEN FlowFail(flow, flow.pending[1])
       ELSE \E decoded \in
                {from_gateway_history_json(ResponseJson(flow.body[1]).val)} :
           IF ~decoded.ok
           THEN FlowFail(flow, decoded.exc)
           ELSE IF JType(decoded.val.gw_mac) # "str"
           THEN FlowFail([flow EXCEPT !.fetched = TRUE], "TypeError")
           ELSE /\ flow' = [flow EXCEPT !.step = "unique_id",
                                        !.fetched = TRUE,
                                        !.gw_mac = Some(decoded.val.gw_mac)]
                /\ UNCHANGED CoordinatorVars

\* lines 51-64: the unique id is set and, when an entry of that id is
\* configured already, _abort_if_unique_id_configured raises AbortFlow
\* inside the try statement; otherwise the entry is created
FlowUniqueIdSet(configured) ==
    /\ flow.step = "unique_id"
    /\ LET suffix == gw_mac_suffix(flow.gw_mac[1])
       IN  IF configured THEN FlowFail(flow, "AbortFlow")
           ELSE IF ~suffix.ok THEN FlowFail(flow, suffix.exc)
           ELSE /\ flow' = [flow EXCEPT
                               !.step = "created",
                               !.result =
                                   Some([title |-> EntryTitle(suffix.val),
                                         data |-> EntryData(Host, flow.token)])]
                /\ UNCHANGED CoordinatorVars

\* The task running the step is cancelled: CancelledError is thrown into it
\* at the await it is suspended in.  Thrown at response.json it goes through
\* the exit of the async with block; thrown at the exit it takes the place
\* of an exception on its way out.
FlowCancel ==
    /\ flow.step \in {"dhcp_unique_id", "get", "json", "exit", "unique_id"}
    /\ IF flow.step = "json"
       THEN FlowRaiseInWith(flow, "CancelledError")
       ELSE FlowFail(flow, "CancelledError")

NextFlow ==
    \/ FlowStepUser
    \/ FlowStepDhcp
    \/ \E configured \in BOOLEAN : FlowDhcpUniqueIdSet(configured)
    \/ \E token_input \in TokenInputs : FlowSubmit(token_input)
    \/ \E status \in Statuses : FlowGetResponds(status)
    \/ \E exc \in TransportErrors : FlowGetRaises(exc)
    \/ \E body \in FlowBodies : FlowJsonReturns(body)
    \/ \E exc \in TransportErrors : FlowJsonRaises(exc)
    \/ FlowExitReturns
    \/ \E configured \in BOOLEAN : FlowUniqueIdSet(configured)
    \/ FlowCancel
SpecFlow == Init /\ [][NextFlow]_vars


(***************************************************************************)
(* Properties                                                              *)
(***************************************************************************)
Succeeded(t) == outcome[t].kind = "returned"
Failed(t) == outcome[t].kind = "raised"
ResponseTags(t) == data[t][1].tags
Reported(t, tag) == tag \in Range(outcome[t].value)
TagMacs(tags) == {tags[i].mac : i \in 1..Len(tags)}
BodyRead(t) == http[t] # None /\ http[t][1].body # None
BodyOf(t) == http[t][1].body[1]

\* C1: after a successful cycle a record of the response is in the returned
\* list exactly when its identifier was not cached when the cycle started
\* or the payload cached then differs from the record's payload.
C1_ChangedIffNewOrPayloadDiffers ==
    Succeeded(Driver) =>
        /\ Range(outcome[Driver].value) \subseteq Range(ResponseTags(Driver))
        /\ \A tag \in Range(ResponseTags(Driver)) :
              Reported(Driver, tag) <=>
                  \/ tag.mac \notin DOMAIN cache_at_start[Driver]
                  \/ cache_at_start[Driver][tag.mac].data # tag.data

\* C1 witness: a never seen identifier is reported while a cached one whose
\* rssi, timestamp and age changed under the same payload is not.
C1_Witness ==
    /\ Succeeded(Driver)
    /\ \E new, old \in Range(ResponseTags(Driver)) :
          /\ new.mac \notin DOMAIN cache_at_start[Driver]
          /\ Reported(Driver, new)
          /\ old.mac \in DOMAIN cache_at_start[Driver]
          /\ cache_at_start[Driver][old.mac].data = old.data
          /\ cache_at_start[Driver][old.mac].rssi # old.rssi
          /\ cache_at_start[Driver][old.mac].timestamp # old.timestamp
          /\ cache_at_start[Driver][old.mac].age_seconds # old.age_seconds
          /\ ~Reported(Driver, old)

\* C2: a cycle that failed, for whatever reason and after whatever history,
\* left the cache as it was when the cycle started and returned no list.
C2_FailedCycleKeepsCache ==
    Failed(Driver) =>
        /\ last_tag_datas = cache_at_start[Driver]
        /\ outcome[Driver].value = <<>>
        /\ changed_tag_datas[Driver] = <<>>
        /\ outcome[Driver].exc \in
              {"InvalidAuth", "CannotConnect", "KeyError", "ValueError",
               "TypeError", "AttributeError"}

\* C2 witness: a response whose second tag does not decode arrives when the
\* cache already holds payloads.
C2_Witness ==
    /\ Failed(Driver)
    /\ outcome[Driver].at = "decode"
    /\ last_tag_datas # EmptyCache
    /\ LET payload == GetItem(BodyValue(BodyOf(Driver)), "data")
           tags == GetItem(payload.val, "tags")
       IN  /\ payload.ok
           /\ tags.ok
           /\ IsDict(tags.val)
           /\ Len(JItems(tags.val)) = 2
           /\ from_gateway_history_json_tag(
                  JItems(tags.val)[1][1], JItems(tags.val)[1][2], Some(100)).ok

DecodeFails(t) ==
    /\ BodyRead(t)
    /\ http[t][1].status = 200
    /\ BodyKind(BodyOf(t)) = "json"
    /\ ~from_gateway_history_json(BodyValue(BodyOf(t))).ok

\* C3: a 200 response with well-formed JSON that does not decode ends the
\* cycle with the classified error DecodeError and without a record list.
C3_DecodeFailureIsClassified ==
    DecodeFails(Driver) =>
        /\ Failed(Driver)
        /\ outcome[Driver].exc = "DecodeError"
        /\ outcome[Driver].value = <<>>

\* C4: after a successful cycle the cache holds the response's payload for
\* every identifier of the response, and every other identifier is cached
\* exactly as before the cycle, none added and none removed.
C4_CacheFrame ==
    Succeeded(Driver) =>
        /\ \A tag \in Range(ResponseTags(Driver)) :
              /\ tag.mac \in DOMAIN last_tag_datas
              /\ last_tag_datas[tag.mac].data = tag.data
        /\ \A m \in (DOMAIN last_tag_datas \cup DOMAIN cache_at_start[Driver])
                       \ TagMacs(ResponseTags(Driver)) :
              /\ m \in DOMAIN last_tag_datas
              /\ m \in DOMAIN cache_at_start[Driver]
              /\ last_tag_datas[m] = cache_at_start[Driver][m]

\* C4 witness: a response replaced one cached payload and did not mention
\* another cached identifier.
C4_Witness ==
    /\ Succeeded(Driver)
    /\ \E tag \in Range(ResponseTags(Driver)) :
          /\ tag.mac \in DOMAIN cache_at_start[Driver]
          /\ cache_at_start[Driver][tag.mac].data # tag.data
    /\ \E m \in DOMAIN cache_at_start[Driver] :
          m \notin TagMacs(ResponseTags(Driver))

\* C5: a successful cycle whose response carries the identifiers and
\* payloads of the preceding successful cycle returns an empty list and
\* leaves the cache unchanged.
C5_DiffIdempotent ==
    (Succeeded(Driver) /\ repeated[Driver]) =>
        /\ outcome[Driver].value = <<>>
        /\ last_tag_datas = cache_at_start[Driver]

\* C5 witness: the repeated response is not empty and differs from the
\* cached records in something other than the payload.
C5_Witness ==
    /\ Succeeded(Driver)
    /\ repeated[Driver]
    /\ \E tag \in Range(ResponseTags(Driver)) : last_tag_datas[tag.mac] # tag

\* the fetch of t ends in exc: exc is on its way out of the async with
\* block, or it has left the fetch and ended the cycle
EndsIn(t, exc) ==
    IF pc[t] = "exit"
    THEN pending[t] # None /\ pending[t][1].exc = exc
    ELSE pc[t] = "idle" /\ Failed(t) /\ outcome[t].exc = exc

\* C6: a response with status 401 ends the fetch in InvalidAuth; its body is
\* never read and no HistoryResponse comes of it.
C6_Status401IsInvalidAuth ==
    (http[Driver] # None /\ http[Driver][1].status = 401) =>
        /\ EndsIn(Driver, "InvalidAuth")
        /\ http[Driver][1].body = None
        /\ data[Driver] = None

\* C6 witness: a 401 answered to a poller that has polled successfully before.
C6_Witness ==
    /\ http[Driver] # None
    /\ http[Driver][1].status = 401
    /\ outcome[Driver].exc = "InvalidAuth"
    /\ last_tag_datas # EmptyCache

\* C7: a status other than 200 and 401, a timeout or connection failure of
\* the request or of the reading of the body, and a 200 body that is not a
\* JSON document, be it text json.loads rejects or no text at all, each end
\* the fetch in CannotConnect.
C7_CannotConnectCases ==
    /\ (http[Driver] # None /\ http[Driver][1].status \notin {200, 401}) =>
          (EndsIn(Driver, "CannotConnect") /\ data[Driver] = None)
    /\ (Failed(Driver) /\ outcome[Driver].original \in TransportErrors) =>
          outcome[Driver].exc = "CannotConnect"
    /\ (pending[Driver] # None
           /\ pending[Driver][1].original \in TransportErrors) =>
          pending[Driver][1].exc = "CannotConnect"
    /\ (BodyRead(Driver) /\ BodyKind(BodyOf(Driver)) # "json") =>
          /\ data[Driver] = None
          /\ IF pc[Driver] = "exit"
             THEN pending[Driver] = None
                  \/ pending[Driver][1].exc = "CannotConnect"
             ELSE Failed(Driver) /\ outcome[Driver].exc = "CannotConnect"

\* C7 witness: a 200 response whose body json.loads rejects.
C7_Witness ==
    /\ BodyRead(Driver)
    /\ http[Driver][1].status = 200
    /\ BodyKind(BodyOf(Driver)) = "invalid"
    /\ outcome[Driver].exc = "CannotConnect"
    /\ outcome[Driver].original = "ValueError"

NonEmptyAfterTrim(tok) == tok # None /\ Strip(tok[1]) # <<>>

\* C8: the request carries "Authorization: Bearer <token>" exactly when the
\* token is not empty after trimming whitespace, for a token handed to the
\* fetch directly and for the token the coordinator stored.
C8_HeaderIffTokenAfterTrim ==
    /\ \A tok \in ConfiguredTokens :
          RequestHeaders(tok) # None <=> NonEmptyAfterTrim(tok)
    /\ request[Driver] # None =>
          /\ request[Driver][1].headers # None <=> NonEmptyAfterTrim(token)
          /\ request[Driver][1].headers # None =>
                request[Driver][1].headers[1].Authorization
                    = BearerPrefix \o token[1]

InLoop == {t \in Tasks : pc[t] = "loop"}

\* C10: the for loops of overlapping cycles do not interleave: at most one
\* task is in its loop, the loop of a task, finished from where it stands,
\* yields the cache of the successful responses applied one after another
\* in the order their loops began, and between loops the cache is that cache.
C10_DiffsAreSerial ==
    /\ Cardinality(InLoop) <= 1
    /\ \A t \in InLoop :
          RunLoop([cache |-> last_tag_datas, changed |-> <<>>],
                  ResponseTags(t), idx[t]).cache = serial_cache
    /\ InLoop = {} => last_tag_datas = serial_cache

\* C10 witness: a cycle that started before another one's loop ran its own
\* loop after it, on the cache the other one committed.
C10_Witness ==
    /\ Succeeded(1)
    /\ Succeeded(2)
    /\ cache_at_start[2] = EmptyCache
    /\ outcome[1].value # <<>>
    /\ outcome[2].value # <<>>
    /\ Len(outcome[2].value) < Len(ResponseTags(2))

Cancelled(t) == Failed(t) /\ outcome[t].exc = "CancelledError"

\* the cache a cycle of t leaves when its loop runs over the whole response
FullUpdate(t) ==
    RunLoop([cache |-> cache_at_start[t], changed |-> <<>>],
            from_gateway_history_json(BodyValue(BodyOf(t))).val.tags, 1).cache

\* C11: after a cycle was cancelled, wherever the cancellation arrived, the
\* cache is the cache the cycle started with or that cache with the whole
\* response applied, never one with only some of the response's records.
C11_CancelNeverCommitsPartialUpdate ==
    Cancelled(Driver) =>
        \/ last_tag_datas = cache_at_start[Driver]
        \/ /\ BodyRead(Driver)
           /\ BodyKind(BodyOf(Driver)) = "json"
           /\ from_gateway_history_json(BodyValue(BodyOf(Driver))).ok
           /\ last_tag_datas = FullUpdate(Driver)

\* C11 witness: the cycle is cancelled while the body of a 200 response is
\* awaited, with payloads of earlier cycles in the cache.
C11_Witness ==
    /\ Cancelled(Driver)
    /\ outcome[Driver].at = "json"
    /\ http[Driver] # None
    /\ http[Driver][1].status = 200
    /\ Cardinality(DOMAIN last_tag_datas) = 2

\* a failed cycle leaves the driver idle with the next tick able to start;
\* the cycle after a failure sends a fresh request, and when it succeeds it
\* reports exactly the records that are new or whose payload differs from
\* the cache
FailureLeavesDriverReady ==
    /\ [](Failed(Driver) => (pc[Driver] = "idle" /\ ENABLED Tick(Driver)))
    /\ []((pc[Driver] = "get" /\ after_failure[Driver]) =>
             /\ request[Driver] = Some([headers |-> RequestHeaders(token)])
             /\ http[Driver] = None
             /\ outcome[Driver] = NoOutcome)
    /\ []((Succeeded(Driver) /\ after_failure[Driver]) =>
             \A tag \in Range(ResponseTags(Driver)) :
                Reported(Driver, tag) <=>
                    \/ tag.mac \notin DOMAIN cache_at_start[Driver]
                    \/ cache_at_start[Driver][tag.mac].data # tag.data)

\* C12 as stated: no failure is fatal, and every cycle that started comes
\* back to idle.
C12_EveryCycleReturns ==
    /\ FailureLeavesDriverReady
    /\ (pc[Driver] # "idle") ~> (pc[Driver] = "idle")

\* C12: no failure is fatal, and every cycle that started comes back to
\* idle unless it stays suspended for ever in an await of the fetch, which
\* no timeout bounds.
C12_NoFailureIsFatal ==
    /\ FailureLeavesDriverReady
    /\ \/ (pc[Driver] # "idle") ~> (pc[Driver] = "idle")
       \/ <>[](pc[Driver] \in CancelPoints)

\* C12 witness: the cycle after a failed one succeeded and reported a beacon
\* whose payload is not the one cached before the failure.
C12_Witness ==
    /\ Succeeded(Driver)
    /\ after_failure[Driver]
    /\ \E tag \in Range(outcome[Driver].value) :
          /\ tag.mac \in DOMAIN cache_at_start[Driver]
          /\ cache_at_start[Driver][tag.mac].data # tag.data

\* C13: every record of a decoded response has age_seconds equal to the
\* response timestamp minus its own timestamp, negative when the record is
\* the later one, if the response timestamp is not 0, and None if it is 0;
\* a record decoded without a response timestamp has age_seconds None.
C13_AgeSeconds ==
    /\ data[Driver] # None =>
          \A tag \in Range(ResponseTags(Driver)) :
             tag.age_seconds =
                 IF data[Driver][1].timestamp # 0
                 THEN Some(data[Driver][1].timestamp - tag.timestamp)
                 ELSE None
    /\ \A tj \in GoodTagJsons :
          from_gateway_history_json_tag(MacNames[1], tj, None).val.age_seconds
              = None

\* C13 witness: a response older than its record, decoded while the cache
\* holds a record of a response whose timestamp was 0.
C13_Witness ==
    /\ data[Driver] # None
    /\ \E tag \in Range(ResponseTags(Driver)) :
          /\ tag.age_seconds # None
          /\ tag.age_seconds[1] < 0
    /\ \E m \in DOMAIN last_tag_datas : last_tag_datas[m].age_seconds = None

\* C14: no record with an empty payload exists: not among the records of a
\* decoded response, not in a returned list and not in the cache.
C14_PayloadNeverEmpty ==
    /\ data[Driver] # None =>
          \A tag \in Range(ResponseTags(Driver)) : tag.data # <<>>
    /\ \A tag \in Range(outcome[Driver].value) : tag.data # <<>>
    /\ \A m \in DOMAIN last_tag_datas : last_tag_datas[m].data # <<>>

\* str.lower() of an identifier the gateway may send
Lowered(mac) == IF mac = MacNames[2] THEN MacNames[1] ELSE mac

\* C15: identifiers that differ only in letter case are one beacon to the
\* cache: it never holds two entries for them, and a successful cycle does
\* not report a record whose payload was cached under the other spelling.
C15_IdentifiersCaseNormalized ==
    /\ \A m1, m2 \in DOMAIN last_tag_datas :
          Lowered(m1) = Lowered(m2) => m1 = m2
    /\ Succeeded(Driver) =>
          \A tag \in Range(outcome[Driver].value) :
             ~\E m \in DOMAIN cache_at_start[Driver] :
                 /\ Lowered(m) = Lowered(tag.mac)
                 /\ cache_at_start[Driver][m].data = tag.data

\* C16: between cycles, whatever cycles succeeded and failed before, the
\* cache holds exactly the identifiers of the responses returned so far,
\* each with its payload in the last of them that held it; no identifier
\* leaves the cache during a cycle, and a successful cycle reports every
\* record whose payload replaces a cached one, so that A, B, A is reported
\* at B and again at A.
C16_CacheIsLatestPayloads ==
    /\ pc[Driver] # "loop" =>
          /\ DOMAIN last_tag_datas = DOMAIN latest_payloads
          /\ \A m \in DOMAIN last_tag_datas :
                last_tag_datas[m].data = latest_payloads[m]
    /\ DOMAIN cache_at_start[Driver] \subseteq DOMAIN last_tag_datas
    /\ Succeeded(Driver) =>
          \A tag \in Range(ResponseTags(Driver)) :
             (/\ tag.mac \in DOMAIN cache_at_start[Driver]
              /\ cache_at_start[Driver][tag.mac].data # tag.data)
                 => (Reported(Driver, tag) /\ latest_payloads[tag.mac] = tag.data)

\* C16 witness: after a failed cycle, a successful one replaced the payload
\* of one cached identifier while another cached identifier, absent from
\* the response, kept its entry.
C16_Witness ==
    /\ Succeeded(Driver)
    /\ after_failure[Driver]
    /\ \E tag \in Range(outcome[Driver].value) :
          /\ tag.mac \in DOMAIN cache_at_start[Driver]
          /\ latest_payloads[tag.mac] # cache_at_start[Driver][tag.mac].data
    /\ \E m \in DOMAIN latest_payloads : m \notin TagMacs(ResponseTags(Driver))

\* C17: a cycle that is in flight or has ended, in a returned list or in
\* any failure, has sent exactly one GET; a failed cycle is over, and
\* nothing is sent again before the next tick.
C17_OneGetPerCycle ==
    /\ (pc[Driver] # "idle" \/ outcome[Driver] # NoOutcome) => gets[Driver] = 1
    /\ Failed(Driver) => (pc[Driver] = "idle" /\ gets[Driver] = 1)
    /\ pc[Driver] = "idle" /\ outcome[Driver] = NoOutcome => gets[Driver] = 0

\* C17 witness: the second of two cycles that failed in a row, this one on
\* a 401, has sent one GET.
C17_Witness ==
    /\ Failed(Driver)
    /\ after_failure[Driver]
    /\ outcome[Driver].exc = "InvalidAuth"
    /\ gets[Driver] = 1

\* a is b with some of its elements left out
RECURSIVE IsSubsequence(_, _)
IsSubsequence(a, b) ==
    IF a = <<>> THEN TRUE
    ELSE IF b = <<>> THEN FALSE
    ELSE IF Head(a) = Head(b) THEN IsSubsequence(Tail(a), Tail(b))
    ELSE IsSubsequence(a, Tail(b))

\* C18: the list a successful cycle returns is a subsequence of the
\* response's records in response order, holds no identifier twice, and
\* each record in it is the record the cache holds for its identifier.
C18_ChangedListIsOrderedSubsequence ==
    Succeeded(Driver) =>
        LET value == outcome[Driver].value
        IN  /\ IsSubsequence(value, ResponseTags(Driver))
            /\ \A i, j \in 1..Len(value) :
                  value[i].mac = value[j].mac => i = j
            /\ \A i \in 1..Len(value) :
                  /\ value[i].mac \in DOMAIN last_tag_datas
                  /\ last_tag_datas[value[i].mac] = value[i]

\* C18 witness: two records reported by a cycle that found the cache
\* holding an earlier record of one of them.
C18_Witness ==
    /\ Succeeded(Driver)
    /\ Len(outcome[Driver].value) = 2
    /\ cache_at_start[Driver] # EmptyCache

\* the fetch of the flow failed: an exception that `except Exception`
\* covers left it
FetchFailed == flow.step = "form" /\ flow.exc # "" /\ ~flow.fetched

\* C19: _async_validate returns an entry only after its fetch returned a
\* response; when the fetch fails it returns no entry and one error code,
\* "cannot_connect" for CannotConnect, "invalid_auth" for InvalidAuth and
\* "unknown" for anything else, a JSON body that does not decode included;
\* the entry holds a token only when the submitted one is not empty after
\* trimming, and then the trimmed one.  A cancelled flow returns nothing:
\* neither an entry nor an error code.
C19_ValidateCreatesEntryOnlyAfterFetch ==
    /\ flow.result # None =>
          /\ flow.step = "created" /\ flow.fetched
          /\ flow.errors = None
          /\ flow.status = 200 /\ flow.body # None
          /\ LET given == flow.token_input
                 stored == flow.result[1].data.token
             IN  IF given # None /\ Strip(given[1]) # <<>>
                 THEN stored = Some(Strip(given[1]))
                 ELSE stored = None
    /\ FetchFailed =>
          /\ flow.result = None
          /\ flow.errors # None
          /\ flow.exc = "CannotConnect" => flow.errors = Some("cannot_connect")
          /\ flow.exc = "InvalidAuth" => flow.errors = Some("invalid_auth")
          /\ flow.exc \notin {"CannotConnect", "InvalidAuth"} =>
                flow.errors = Some("unknown")
          /\ flow.status = 401 <=> flow.exc = "InvalidAuth"
    /\ flow.step = "form" /\ flow.body # None
         /\ BodyKind(flow.body[1]) = "json"
         /\ ~from_gateway_history_json(BodyValue(flow.body[1])).ok =>
          /\ flow.result = None
          /\ flow.errors = Some("unknown")
    /\ flow.step = "cancelled" =>
          /\ flow.exc = "CancelledError"
          /\ flow.result = None /\ flow.errors = None

\* C19 witness: an entry created with the trimmed token of an input padded
\* with a vertical tab and a unit separator, by a flow whose preceding
\* validation ended with "unknown".
C19_Witness ==
    /\ flow.step = "created"
    /\ flow.token_input = Some(<<VerticalTab, "k", "9", "">>)
    /\ flow.result[1].data = EntryData(Host, Some(<<"k", "9">>))
    /\ flow.result[1].title = TitlePrefix \o <<":", "F", "F", "E", "E">>
    /\ flow.prev_errors = Some("unknown")

=============================================================================
